---- MODULE Spec2Model ----
(***************************************************************************)
(* A model of the polyhedron geometry scripts:                             *)
(*   scripts/convert_obj_to_format.py  (OBJ mesh -> polyhedron record)     *)
(*   scripts/calculate_midradius.py    (recompute the midradius of records)*)
(*   scripts/download_johnson_solids.py (its copy of calculate_midradius) *)
(*                                                                         *)
(* Numbers.  A Python float is modelled by the real number it stands for,  *)
(* without rounding: a rational, or a rational divided by the square root  *)
(* of an integer, which is what math.sqrt makes of the rational input the  *)
(* model draws.  float('inf') is the rational <<1, 0>>.  Rounding to four  *)
(* decimals happens where the code formats a number as text.               *)
(*                                                                         *)
(* Text.  Files and lines are strings; the regular expressions of the      *)
(* code are matched character by character.                                *)
(***************************************************************************)
EXTENDS Integers, Sequences, FiniteSets, TLC

VARIABLES
    pc,         \* position of the running script
    obj,        \* convert: the lines of the OBJ file read
    normalized, \* normalize_vertices: the list returned for vertices
    faces,      \* convert: the face list of the mesh
    vertices,   \* the vertex list
    edges,      \* the edge list
    midradius,  \* the midradius computed, decoded or about to be encoded
    min_edge,   \* calculate_midradius: the edge that attained the minimum
    min_point,  \* calculate_midradius: the point that attained the minimum
    p1, p2,     \* closest_point_on_segment: the end points of the segment
    closest,    \* closest_point_on_segment: the point returned
    distance,   \* closest_point_on_segment: the distance returned
    content,    \* the text of a record: encoded, or written to the output file
    decoded,    \* what parse_polyhedron_file returned or raised for content
    data_dir,   \* recompute: whether the data directory exists
    files,      \* recompute: the .txt files of the data directory, sorted
    file_no,    \* recompute: the number (from 1) of the next file of the loop
    results,    \* recompute: the summary entries
    log,        \* recompute: what was printed per file, <<file number, message>>
    calls,      \* history: the functions called, <<file number, name>> per file
                \* of recompute, <<function, outcome>> where copies are compared
    orig        \* history: the files as they were when the script started

meshVars == <<obj, normalized, faces, vertices, edges, midradius, min_edge, min_point>>

segmentVars == <<p1, p2, closest, distance>>

codecVars == <<content, decoded>>

batchVars == <<data_dir, files, file_no, results, log, calls, orig>>

vars == <<pc, meshVars, segmentVars, codecVars, batchVars>>

(***************************************************************************)
(* Bounds of the model.                                                    *)
(***************************************************************************)
MaxFaces == 2

MaxVerts == 3

MaxEdges == 2

MaxRecord == 2

MaxLines == 3

MaxFiles == 2

MaxObjLines == 3

(***************************************************************************)
(* convert_obj_to_format.py: faces_to_edges                                *)
(***************************************************************************)
Min(a, b) == IF a <= b THEN a ELSE b

Max(a, b) == IF a >= b THEN a ELSE b

\* A mutant of FaceEdge: the pair closing the cycle is left out (the index
\* after the last one is the last one itself).
FaceEdgeNoWrap(face, i) ==
    LET v1 == face[i + 1]
        v2 == face[Min(i + 1, Len(face) - 1) + 1]
    IN  <<Min(v1, v2), Max(v1, v2)>>

\* The edge the loop body forms for position i (0-based) of a face.
FaceEdge(face, i) ==
    LET v1 == face[i + 1]
        v2 == face[((i + 1) % Len(face)) + 1]
    IN  <<Min(v1, v2), Max(v1, v2)>>

\* for i in range(len(face)): edges_set.add(edge), from position i on.
RECURSIVE AddFaceEdges(_, _, _)
AddFaceEdges(edges_set, face, i) ==
    IF i >= Len(face) THEN edges_set
    ELSE AddFaceEdges(edges_set \cup {FaceEdge(face, i)}, face, i + 1)

\* for face in faces: ..., from face number k (1-based) on.
RECURSIVE AddAllFaces(_, _, _)
AddAllFaces(edges_set, fs, k) ==
    IF k > Len(fs) THEN edges_set
    ELSE AddAllFaces(AddFaceEdges(edges_set, fs[k], 0), fs, k + 1)

\* Python's order on 2-tuples of integers.
TupleLess(a, b) == a[1] < b[1] \/ (a[1] = b[1] /\ a[2] < b[2])

\* sorted(list(S)) for a set of 2-tuples.
RECURSIVE Sorted(_)
Sorted(S) ==
    IF S = {} THEN <<>>
    ELSE LET m == CHOOSE x \in S : \A y \in S : y = x \/ TupleLess(x, y)
         IN  <<m>> \o Sorted(S \ {m})

faces_to_edges(fs) == Sorted(AddAllFaces({}, fs, 1))

(***************************************************************************)
(* Exact rationals <<n, d>>, in lowest terms with d > 0; <<1, 0>> is       *)
(* infinite.                                                               *)
(***************************************************************************)
Abs(x) == IF x < 0 THEN -x ELSE x

RECURSIVE GCD(_, _)
GCD(a, b) == IF b = 0 THEN a ELSE GCD(b, a % b)

\* n/d in lowest terms, the denominator positive.
Rat(n, d) ==
    LET g == GCD(Abs(n), Abs(d))
        s == IF d < 0 THEN -1 ELSE 1
    IN  <<(s * n) \div g, (s * d) \div g>>

Zero == <<0, 1>>

One == <<1, 1>>

Inf == <<1, 0>>

RNeg(a) == <<-a[1], a[2]>>

RAdd(a, b) == Rat(a[1] * b[2] + b[1] * a[2], a[2] * b[2])

RMul(a, b) == Rat(a[1] * b[1], a[2] * b[2])

RDiv(a, b) == Rat(a[1] * b[2], a[2] * b[1])

\* a < b, also when either is Inf.
RLess(a, b) == a[1] * b[2] < b[1] * a[2]

(***************************************************************************)
(* Python floats.  A float is modelled by the real number it stands for,   *)
(* without rounding: [q |-> a rational, s |-> a square-free integer >= 1]  *)
(* is q / sqrt(s).  These are the numbers the scripts produce from         *)
(* rational input: sums, products and quotients of rationals, square roots *)
(* of rationals, and rational multiples of one such root.                  *)
(***************************************************************************)
\* The largest r with r * r dividing n, searched from k on.
RECURSIVE ExtractSquare(_, _)
ExtractSquare(n, k) ==
    IF k * k > n THEN 1
    ELSE IF n % (k * k) = 0 THEN k * ExtractSquare(n \div (k * k), k)
    ELSE ExtractSquare(n, k + 1)

\* q / sqrt(s) for a rational q and an integer s >= 1, in canonical form.
Num(q, s) ==
    IF q[1] = 0 THEN [q |-> Zero, s |-> 1]
    ELSE LET r == ExtractSquare(s, 2)
         IN  [q |-> RDiv(q, <<r, 1>>), s |-> s \div (r * r)]

FromRat(q) == [q |-> q, s |-> 1]

F0 == FromRat(Zero)

F1 == FromRat(One)

\* float('inf')
inf == FromRat(Inf)

FNeg(a) == [q |-> RNeg(a.q), s |-> a.s]

\* a + b; the two are rational multiples of the same root (or one is 0).
FAdd(a, b) ==
    IF a.q = Zero THEN b
    ELSE IF b.q = Zero THEN a
    ELSE LET s == CHOOSE x \in {a.s} : x = b.s
         IN  Num(RAdd(a.q, b.q), s)

FSub(a, b) == FAdd(a, FNeg(b))

FMul(a, b) == Num(RMul(a.q, b.q), a.s * b.s)

\* a / b: (qa / qb) * sqrt(sb) / sqrt(sa) = (qa / qb) * sb / sqrt(sa * sb)
FDiv(a, b) == Num(RMul(RDiv(a.q, b.q), <<b.s, 1>>), a.s * b.s)

\* The square of a, a rational.
Square(a) == RDiv(RMul(a.q, a.q), <<a.s, 1>>)

\* a < b
FLess(a, b) ==
    IF a.q[1] < 0
    THEN b.q[1] >= 0 \/ RLess(Square(b), Square(a))
    ELSE b.q[1] >= 0 /\ RLess(Square(a), Square(b))

\* min(a, b) and max(a, b) of Python: the first argument on a tie.
FMin(a, b) == IF FLess(b, a) THEN b ELSE a

FMax(a, b) == IF FLess(a, b) THEN b ELSE a

\* A mutant of sqrt: the root is not taken.
sqrtNone(a) == a

\* math.sqrt(a) for a rational a = n/d >= 0: n / sqrt(n * d).
sqrt(a) ==
    LET n == (CHOOSE x \in {a.q} : a.s = 1 /\ x[1] >= 0)[1]
        d == a.q[2]
    IN  IF d = 0 THEN inf ELSE Num(<<n, 1>>, n * d)

\* sum(v[i] * w[i] for i in range(3))
Dot(v, w) == FAdd(FAdd(FMul(v[1], w[1]), FMul(v[2], w[2])), FMul(v[3], w[3]))

CeilDiv(a, b) == (a + b - 1) \div b

\* x < 1e-10 for a rational x >= 0, the threshold being 1 / (10^5 * 10^5).
BelowThreshold(x) == x.q[1] * 100000 < CeilDiv(x.q[2], 100000)

(***************************************************************************)
(* calculate_midradius.py: closest_point_on_segment                        *)
(***************************************************************************)
\* A mutant of Clamp: t is not clamped, the point is that of the infinite
\* line.
ClampNone(t) == t

\* t = max(0, min(1, t))
Clamp(t) == FMax(F0, FMin(F1, t))

origin == <<F0, F0, F0>>

\* The pair (closest, distance) the function returns.
closest_point_on_segment(q1, q2, o) ==
    LET edge_vec == [i \in 1..3 |-> FSub(q2[i], q1[i])]
        to_origin == [i \in 1..3 |-> FNeg(q1[i])]
        edge_len_sq == Dot(edge_vec, edge_vec)
    IN  IF BelowThreshold(edge_len_sq)
        THEN <<q1, sqrt(Dot(q1, q1))>>
        ELSE LET t == Clamp(FDiv(Dot(to_origin, edge_vec), edge_len_sq))
                 cl == [i \in 1..3 |-> FAdd(q1[i], FMul(t, edge_vec[i]))]
             IN  <<cl, sqrt(Dot(cl, cl))>>

(***************************************************************************)
(* calculate_midradius.py: calculate_midradius                             *)
(***************************************************************************)
\* Python's None.
None == <<>>

\* The outcome of a call: a value returned, or an exception raised.
Return(v) == [raised |-> "", value |-> v]

Raise(e) == [raised |-> e, value |-> None]

\* Whether lst[idx] exists; a negative idx counts from the end.
ValidIndex(lst, idx) == -Len(lst) <= idx /\ idx < Len(lst)

\* lst[idx]
Item(lst, idx) == IF idx >= 0 THEN lst[idx + 1] ELSE lst[Len(lst) + idx + 1]

\* A mutant of Improves: the comparison is reversed.
ImprovesReversed(d, min_distance) == FLess(min_distance, d)

\* A mutant of Improves: an equal distance replaces the minimum too.
ImprovesOrEqual(d, min_distance) == ~FLess(min_distance, d)

\* if distance < min_distance
Improves(d, min_distance) == FLess(d, min_distance)

\* The loop over the edges from edge number k (1-based) on; best is
\* (min_distance, min_edge, min_point).
RECURSIVE MidradiusLoop(_, _, _, _)
MidradiusLoop(vs, es, k, best) ==
    IF k > Len(es) THEN Return(best)
    ELSE IF ~ValidIndex(vs, es[k][1]) \/ ~ValidIndex(vs, es[k][2])
    THEN Raise("IndexError")
    ELSE LET r == closest_point_on_segment(Item(vs, es[k][1]),
                                           Item(vs, es[k][2]), origin)
         IN  MidradiusLoop(vs, es, k + 1,
                 IF Improves(r[2], best[1]) THEN <<r[2], es[k], r[1]>>
                 ELSE best)

calculate_midradius(vs, es) == MidradiusLoop(vs, es, 1, <<inf, None, None>>)

(***************************************************************************)
(* convert_obj_to_format.py: normalize_vertices and calculate_midradius    *)
(***************************************************************************)
\* A mutant of Sum: nothing is added up.
SumNone(xs) == F0

\* sum(x for x in xs) of a sequence of floats.
RECURSIVE Sum(_)
Sum(xs) == IF xs = <<>> THEN F0 ELSE FAdd(xs[1], Sum(Tail(xs)))

\* A mutant of MaxOf: the first element is taken for the largest.
MaxOfFirst(xs) == xs[1]

\* max(xs) of a non-empty sequence of floats.
RECURSIVE MaxOf(_)
MaxOf(xs) == IF Len(xs) = 1 THEN xs[1] ELSE FMax(xs[1], MaxOf(Tail(xs)))

normalize_vertices(vs) ==
    IF vs = <<>> THEN vs
    ELSE LET n == FromRat(<<Len(vs), 1>>)
             centroid == [i \in 1..3 |->
                             FDiv(Sum([j \in 1..Len(vs) |-> vs[j][i]]), n)]
             centered == [j \in 1..Len(vs) |->
                             [i \in 1..3 |-> FSub(vs[j][i], centroid[i])]]
             max_dist == MaxOf([j \in 1..Len(vs) |->
                                   sqrt(Dot(centered[j], centered[j]))])
         IN  IF FLess(F0, max_dist)
             THEN [j \in 1..Len(vs) |->
                      [i \in 1..3 |-> FDiv(centered[j][i], max_dist)]]
             ELSE centered

\* The distance the loop body of calculate_midradius computes for the
\* segment from q1 to q2 (the copy of closest_point_on_segment inlined).
InlinedDistance(q1, q2) ==
    LET edge_vec == [i \in 1..3 |-> FSub(q2[i], q1[i])]
        to_origin == [i \in 1..3 |-> FNeg(q1[i])]
        edge_len_sq == Dot(edge_vec, edge_vec)
    IN  IF BelowThreshold(edge_len_sq)
        THEN sqrt(Dot(q1, q1))
        ELSE LET t == FMax(F0, FMin(F1,
                          FDiv(Dot(to_origin, edge_vec), edge_len_sq)))
                 cl == [i \in 1..3 |-> FAdd(q1[i], FMul(t, edge_vec[i]))]
             IN  sqrt(Dot(cl, cl))

\* The loop over the edges from edge number j (1-based) on.
RECURSIVE ConvertMidradiusLoop(_, _, _, _)
ConvertMidradiusLoop(vs, es, j, min_distance) ==
    IF j > Len(es) THEN Return(min_distance)
    ELSE IF ~ValidIndex(vs, es[j][1]) \/ ~ValidIndex(vs, es[j][2])
    THEN Raise("IndexError")
    ELSE LET d == InlinedDistance(Item(vs, es[j][1]), Item(vs, es[j][2]))
         IN  ConvertMidradiusLoop(vs, es, j + 1,
                 IF FLess(d, min_distance) THEN d ELSE min_distance)

\* calculate_midradius of convert_obj_to_format.py.
convert_calculate_midradius(vs, es) == ConvertMidradiusLoop(vs, es, 1, inf)

(***************************************************************************)
(* download_johnson_solids.py: calculate_midradius                         *)
(***************************************************************************)
\* A mutant of JohnsonDistance: t is not clamped.
JohnsonDistanceUnclamped(q1, q2) ==
    LET edge_vec == [i \in 1..3 |-> FSub(q2[i], q1[i])]
        to_origin == [i \in 1..3 |-> FNeg(q1[i])]
        edge_len_sq == Dot(edge_vec, edge_vec)
    IN  IF BelowThreshold(edge_len_sq)
        THEN sqrt(Dot(q1, q1))
        ELSE LET t == FDiv(Dot(to_origin, edge_vec), edge_len_sq)
                 cl == [i \in 1..3 |-> FAdd(q1[i], FMul(t, edge_vec[i]))]
             IN  sqrt(Dot(cl, cl))

\* The body of the loop: the distance of the segment q1, q2 from the origin.
JohnsonDistance(q1, q2) ==
    LET edge_vec == [i \in 1..3 |-> FSub(q2[i], q1[i])]
        to_origin == [i \in 1..3 |-> FNeg(q1[i])]
        edge_len_sq == Dot(edge_vec, edge_vec)
    IN  IF BelowThreshold(edge_len_sq)
        THEN sqrt(Dot(q1, q1))
        ELSE LET t == FDiv(Dot(to_origin, edge_vec), edge_len_sq)
                 clamped == FMax(F0, FMin(F1, t))
                 cl == [i \in 1..3 |->
                           FAdd(q1[i], FMul(clamped, edge_vec[i]))]
             IN  sqrt(Dot(cl, cl))

\* The loop over the edges from edge number j (1-based) on.
RECURSIVE JohnsonMidradiusLoop(_, _, _, _)
JohnsonMidradiusLoop(vs, es, j, min_distance) ==
    IF j > Len(es) THEN Return(min_distance)
    ELSE IF ~ValidIndex(vs, es[j][1]) \/ ~ValidIndex(vs, es[j][2])
    THEN Raise("IndexError")
    ELSE LET d == JohnsonDistance(Item(vs, es[j][1]), Item(vs, es[j][2]))
         IN  JohnsonMidradiusLoop(vs, es, j + 1,
                 IF FLess(d, min_distance) THEN d ELSE min_distance)

\* calculate_midradius of download_johnson_solids.py.
johnson_calculate_midradius(vs, es) == JohnsonMidradiusLoop(vs, es, 1, inf)

(***************************************************************************)
(* Text: the string operations of Python the scripts use.                  *)
(***************************************************************************)
Char(str, i) == SubSeq(str, i, i)

IsDigit(c) == c \in {"0", "1", "2", "3", "4", "5", "6", "7", "8", "9"}

DigitValue(c) == (CHOOSE d \in 1..10 : Char("0123456789", d) = c) - 1

\* The characters \s matches and str.strip() removes.
IsSpace(c) == c \in {" ", "\t", "\n", "\r", "\f"}

\* Whether every character of str satisfies Test.
AllChars(str, Test(_)) == \A i \in 1..Len(str) : Test(Char(str, i))

\* The position of the first occurrence of the character c in str at or
\* after position i; Len(str) + 1 when there is none.
Find(str, c, i) ==
    LET found == {j \in i..Len(str) : Char(str, j) = c}
    IN  IF found = {} THEN Max(i, Len(str) + 1)
        ELSE CHOOSE j \in found : \A h \in found : j <= h

\* str.split(sep) for a one-character separator: a sequence of strings.
RECURSIVE Split(_, _)
Split(str, sep) ==
    LET i == Find(str, sep, 1)
    IN  IF i > Len(str) THEN <<str>>
        ELSE <<SubSeq(str, 1, i - 1)>> \o Split(SubSeq(str, i + 1, Len(str)), sep)

\* sep.join(parts)
RECURSIVE Join(_, _)
Join(parts, sep) ==
    IF parts = <<>> THEN ""
    ELSE IF Len(parts) = 1 THEN parts[1]
    ELSE parts[1] \o sep \o Join(Tail(parts), sep)

RECURSIVE LStrip(_)
LStrip(str) ==
    IF Len(str) > 0 /\ IsSpace(Char(str, 1)) THEN LStrip(SubSeq(str, 2, Len(str)))
    ELSE str

RECURSIVE RStrip(_)
RStrip(str) ==
    IF Len(str) > 0 /\ IsSpace(Char(str, Len(str)))
    THEN RStrip(SubSeq(str, 1, Len(str) - 1))
    ELSE str

\* str.strip()
Strip(str) == RStrip(LStrip(str))

\* str.startswith(prefix)
StartsWith(str, prefix) ==
    Len(str) >= Len(prefix) /\ SubSeq(str, 1, Len(prefix)) = prefix

\* str(n) for a natural number n.
RECURSIVE NatToStr(_)
NatToStr(n) ==
    IF n < 10 THEN Char("0123456789", n + 1)
    ELSE NatToStr(n \div 10) \o Char("0123456789", (n % 10) + 1)

\* f"{n}" for an integer n.
IntToStr(n) == IF n < 0 THEN "-" \o NatToStr(-n) ELSE NatToStr(n)

\* int(str) for a string of digits, most significant first.
RECURSIVE DigitsToNat(_)
DigitsToNat(str) ==
    IF str = "" THEN 0
    ELSE 10 * DigitsToNat(SubSeq(str, 1, Len(str) - 1))
            + DigitValue(Char(str, Len(str)))

RECURSIVE Pow10(_)
Pow10(k) == IF k = 0 THEN 1 ELSE 10 * Pow10(k - 1)

(***************************************************************************)
(* f"{x:.4f}" and float(text).                                             *)
(***************************************************************************)
\* The integer square root: the r in lo..hi with r * r <= x < (r + 1)^2.
RECURSIVE ISqrtIn(_, _, _)
ISqrtIn(x, lo, hi) ==
    IF lo = hi THEN lo
    ELSE LET mid == (lo + hi + 1) \div 2
         IN  IF mid <= x \div mid THEN ISqrtIn(x, mid, hi)
             ELSE ISqrtIn(x, lo, mid - 1)

ISqrt(x) == IF x = 0 THEN 0 ELSE ISqrtIn(x, 1, 46340)

\* |q| * 10^4 rounded to the nearest integer, a tie to the even one, for a
\* rational q.
RoundRat4(q) ==
    LET n == Abs(q[1])
        fl == (n * 10000) \div q[2]
        rem == (n * 10000) % q[2]
    IN  IF 2 * rem > q[2] \/ (2 * rem = q[2] /\ fl % 2 = 1) THEN fl + 1 ELSE fl

\* sqrt(n/d) * 10^4 rounded to the nearest integer: with X = 10^8 * n/d and
\* r the integer square root of floor(X), it is r when X < (r + 1/2)^2.
RoundSqrt4(sq) ==
    LET n == sq[1]
        d == sq[2]
        q1 == (n * 10000) \div d
        r1 == (n * 10000) % d
        fl == q1 * 10000 + (r1 * 10000) \div d
        rem == (r1 * 10000) % d
        r == ISqrt(fl)
    IN  IF fl < r * r + r \/ (fl = r * r + r /\ 4 * rem < d) THEN r ELSE r + 1

\* |x| in ten-thousandths, rounded as the format does.
Round4(x) == IF x.s = 1 THEN RoundRat4(x.q) ELSE RoundSqrt4(Square(x))

\* The digits of k % 10000, four of them.
Frac4(k) ==
    LET f == k % 10000
    IN  NatToStr(f \div 1000) \o NatToStr((f \div 100) % 10)
            \o NatToStr((f \div 10) % 10) \o NatToStr(f % 10)

\* f"{x:.4f}"
Format4(x) ==
    IF x = inf THEN "inf"
    ELSE (IF x.q[1] < 0 THEN "-" ELSE "")
            \o NatToStr(Round4(x) \div 10000) \o "." \o Frac4(Round4(x))

\* float(text) for a text of the characters - . 0..9: a ValueError unless it
\* is an optional sign and digits with at most one point among them.
ParseFloat(text) ==
    LET body == IF StartsWith(text, "-") THEN SubSeq(text, 2, Len(text)) ELSE text
        dot == Find(body, ".", 1)
        int_part == SubSeq(body, 1, dot - 1)
        frac_part == SubSeq(body, dot + 1, Len(body))
        q == Rat(DigitsToNat(int_part \o frac_part), Pow10(Len(frac_part)))
    IN  IF /\ AllChars(int_part, IsDigit)
           /\ AllChars(frac_part, IsDigit)
           /\ Len(int_part) + Len(frac_part) > 0
        THEN Return(FromRat(IF StartsWith(text, "-") THEN RNeg(q) ELSE q))
        ELSE Raise("ValueError")

(***************************************************************************)
(* convert_obj_to_format.py: convert_to_format                             *)
(***************************************************************************)
\* f"{i}:{v[0]:.4f},{v[1]:.4f},{v[2]:.4f}"
VertexLine(i, v) ==
    IntToStr(i) \o ":" \o Format4(v[1]) \o "," \o Format4(v[2]) \o ","
        \o Format4(v[3])

\* f"{i}:{v1},{v2}"
EdgeLine(i, e) == IntToStr(i) \o ":" \o IntToStr(e[1]) \o "," \o IntToStr(e[2])

convert_to_format(vs, es, mid) ==
    Join(<<"VERTICES:">>
            \o [i \in 1..Len(vs) |-> VertexLine(i - 1, vs[i])]
            \o <<"", "EDGES:">>
            \o [i \in 1..Len(es) |-> EdgeLine(i - 1, es[i])]
            \o <<"", "MIDRADIUS:", Format4(mid)>>, "\n")

(***************************************************************************)
(* calculate_midradius.py: parse_polyhedron_file                           *)
(***************************************************************************)
IsFloatChar(c) == IsDigit(c) \/ c \in {"-", "."}

IsMidradiusChar(c) == IsDigit(c) \/ c = "."

\* The groups of a line matching ^\d+:(G),(G),...$ with n groups G, each a
\* non-empty run of characters satisfying Test; <<>> when it does not match.
IndexedGroups(line, n, Test(_)) ==
    LET colon == Find(line, ":", 1)
        index == SubSeq(line, 1, colon - 1)
        groups == Split(SubSeq(line, colon + 1, Len(line)), ",")
    IN  IF /\ colon <= Len(line)
           /\ index # ""
           /\ AllChars(index, IsDigit)
           /\ Len(groups) = n
           /\ \A k \in 1..Len(groups) :
                 groups[k] # "" /\ AllChars(groups[k], Test)
        THEN groups
        ELSE <<>>

\* re.match(r'^\d+:([-\d.]+),([-\d.]+),([-\d.]+)$', line)
VertexMatch(line) == IndexedGroups(line, 3, IsFloatChar)

\* re.match(r'^\d+:(\d+),(\d+)$', line)
EdgeMatch(line) == IndexedGroups(line, 2, IsDigit)

\* re.match(r'^([\d.]+)$', line)
MidradiusMatch(line) ==
    IF line # "" /\ AllChars(line, IsMidradiusChar) THEN <<line>> ELSE <<>>

\* The section a header line switches to; "" for a line that is no header.
HeaderOf(line) ==
    IF StartsWith(line, "VERTICES:") THEN "vertices"
    ELSE IF StartsWith(line, "EDGES:") THEN "edges"
    ELSE IF StartsWith(line, "MIDRADIUS:") THEN "midradius"
    ELSE ""

\* A mutant of Unmatched: a line that matches nothing is an error.
UnmatchedRaises(st) == Raise("ValueError")

\* A non-empty line that is no header and does not match the pattern of the
\* current section: no branch of the loop body acts, the state is kept.
Unmatched(st) == Return(st)

\* The body of the loop over the lines: the parser's state after the line
\* raw, or the exception float() raises.
ParseLine(st, raw) ==
    LET line == Strip(raw)
    IN  IF HeaderOf(line) # "" THEN Return([st EXCEPT !.section = HeaderOf(line)])
        ELSE IF line = "" THEN Return(st)
        ELSE IF st.section = "vertices" /\ VertexMatch(line) # <<>>
        THEN LET m == VertexMatch(line)
                 x == ParseFloat(m[1])
                 y == ParseFloat(m[2])
                 z == ParseFloat(m[3])
             IN  IF x.raised # "" \/ y.raised # "" \/ z.raised # ""
                 THEN Raise("ValueError")
                 ELSE Return([st EXCEPT !.vertices =
                                 Append(@, <<x.value, y.value, z.value>>)])
        ELSE IF st.section = "edges" /\ EdgeMatch(line) # <<>>
        THEN LET m == EdgeMatch(line)
             IN  Return([st EXCEPT !.edges =
                             Append(@, <<DigitsToNat(m[1]), DigitsToNat(m[2])>>)])
        ELSE IF st.section = "midradius" /\ MidradiusMatch(line) # <<>>
        THEN LET x == ParseFloat(MidradiusMatch(line)[1])
             IN  IF x.raised # "" THEN Raise("ValueError")
                 ELSE Return([st EXCEPT !.midradius = x.value])
        ELSE Unmatched(st)

\* for line in lines: ..., from line number k (1-based) on.
RECURSIVE ParseLines(_, _, _)
ParseLines(lines, k, st) ==
    IF k > Len(lines) THEN Return(st)
    ELSE LET r == ParseLine(st, lines[k])
         IN  IF r.raised # "" THEN r ELSE ParseLines(lines, k + 1, r.value)

\* The decoded record [vertices, edges, midradius] of a file's text, or the
\* exception raised.
parse_polyhedron_file(text) ==
    LET r == ParseLines(Split(text, "\n"), 1,
                 [section |-> "", vertices |-> <<>>, edges |-> <<>>,
                  midradius |-> None])
    IN  IF r.raised # "" THEN r
        ELSE Return([vertices |-> r.value.vertices, edges |-> r.value.edges,
                     midradius |-> r.value.midradius])

(***************************************************************************)
(* calculate_midradius.py: update_midradius_in_file                        *)
(***************************************************************************)
\* The first position at or after i whose character is no white space;
\* Len(str) + 1 when there is none.
RECURSIVE SkipSpace(_, _)
SkipSpace(str, i) ==
    IF i > Len(str) \/ ~IsSpace(Char(str, i)) THEN i ELSE SkipSpace(str, i + 1)

\* The first position at or after i whose character is not one of [\d.].
RECURSIVE SkipNumber(_, _)
SkipNumber(str, i) ==
    IF i > Len(str) \/ ~IsMidradiusChar(Char(str, i)) THEN i
    ELSE SkipNumber(str, i + 1)

\* Where a match of (MIDRADIUS:\s*\n)([\d.]+) that starts at position i
\* ends (the position after it); 0 when none starts there.  The character
\* after the \n is no white space, so the \n is the last character of the
\* run of white space after the colon.
MatchEnd(text, i) ==
    LET ws == i + 10
        num == SkipSpace(text, ws)
    IN  IF /\ i + 9 <= Len(text)
           /\ SubSeq(text, i, i + 9) = "MIDRADIUS:"
           /\ num > ws
           /\ Char(text, num - 1) = "\n"
           /\ num <= Len(text)
           /\ IsMidradiusChar(Char(text, num))
        THEN SkipNumber(text, num)
        ELSE 0

\* re.sub(pattern, replacement, content), from position i on: the leftmost
\* match is replaced, and the search goes on after it.
RECURSIVE ReSub(_, _, _)
ReSub(text, i, replacement) ==
    LET starts == {j \in i..Len(text) : MatchEnd(text, j) > 0}
        first == CHOOSE j \in starts : \A h \in starts : j <= h
    IN  IF starts = {} THEN SubSeq(text, i, Len(text))
        ELSE SubSeq(text, i, first - 1) \o replacement
                \o ReSub(text, MatchEnd(text, first), replacement)

\* The text the function writes back to the file whose text is content.
update_midradius_in_file(text, new_midradius) ==
    ReSub(text, 1, "MIDRADIUS:\n" \o Format4(new_midradius))

(***************************************************************************)
(* convert_obj_to_format.py: parse_obj_file                                *)
(***************************************************************************)
\* str.split(): the maximal runs of characters that are no white space.
SplitWhitespace(str) ==
    LET starts == {i \in 1..Len(str) :
                      /\ ~IsSpace(Char(str, i))
                      /\ i = 1 \/ IsSpace(Char(str, i - 1))}
        Start(k) == CHOOSE i \in starts : Cardinality({h \in starts : h <= i}) = k
        End(i) == CHOOSE j \in i..Len(str) :
                      /\ \A h \in i..j : ~IsSpace(Char(str, h))
                      /\ j = Len(str) \/ IsSpace(Char(str, j + 1))
    IN  [k \in 1..Cardinality(starts) |-> SubSeq(str, Start(k), End(Start(k)))]

\* int(text): an optional sign and digits, a ValueError otherwise.
ParseInt(text) ==
    LET signed == StartsWith(text, "-") \/ StartsWith(text, "+")
        body == IF signed THEN SubSeq(text, 2, Len(text)) ELSE text
    IN  IF body # "" /\ AllChars(body, IsDigit)
        THEN Return(IF StartsWith(text, "-") THEN -DigitsToNat(body)
                    ELSE DigitsToNat(body))
        ELSE Raise("ValueError")

\* vertex_idx = int(part.split('/')[0]) - 1, r being what int() returned.
ZeroBased(r) == Return(r.value - 1)

\* The vertex index of one part of a face line, or the exception raised.
FaceIndex(part) ==
    LET r == ParseInt(Split(part, "/")[1])
    IN  IF r.raised # "" THEN r ELSE ZeroBased(r)

\* The body of the loop over the lines of the file: the vertices and faces
\* after the line raw, or the exception float() or int() raises.
ObjLine(st, raw) ==
    LET line == Strip(raw)
        parts == SplitWhitespace(line)
    IN  IF line = "" \/ StartsWith(line, "#") THEN Return(st)
        ELSE IF StartsWith(line, "v ")
        THEN IF Len(parts) >= 4
             THEN LET x == ParseFloat(parts[2])
                      y == ParseFloat(parts[3])
                      z == ParseFloat(parts[4])
                  IN  IF x.raised # "" \/ y.raised # "" \/ z.raised # ""
                      THEN Raise("ValueError")
                      ELSE Return([st EXCEPT !.vertices =
                                      Append(@, <<x.value, y.value, z.value>>)])
             ELSE Return(st)
        ELSE IF StartsWith(line, "f ")
        THEN LET idx == [k \in 1..(Len(parts) - 1) |-> FaceIndex(parts[k + 1])]
             IN  IF \E k \in 1..Len(idx) : idx[k].raised # ""
                 THEN Raise("ValueError")
                 ELSE IF Len(idx) >= 2
                 THEN Return([st EXCEPT !.faces =
                                 Append(@, [k \in 1..Len(idx) |-> idx[k].value])])
                 ELSE Return(st)
        ELSE Return(st)

\* for line in f: ..., from line number k (1-based) on.
RECURSIVE ObjLines(_, _, _)
ObjLines(lines, k, st) ==
    IF k > Len(lines) THEN Return(st)
    ELSE LET r == ObjLine(st, lines[k])
         IN  IF r.raised # "" THEN r ELSE ObjLines(lines, k + 1, r.value)

\* The vertices and faces of the OBJ file whose lines are lines, or the
\* exception raised.
parse_obj_file(lines) ==
    ObjLines(lines, 1, [vertices |-> <<>>, faces |-> <<>>])

(***************************************************************************)
(* Values of the variables a specification does not use.                   *)
(***************************************************************************)
MeshUnused ==
    /\ obj = <<>>
    /\ normalized = None
    /\ faces = <<>>
    /\ vertices = <<>>
    /\ edges = <<>>
    /\ midradius = None
    /\ min_edge = None
    /\ min_point = None

SegmentUnused ==
    /\ p1 = None
    /\ p2 = None
    /\ closest = None
    /\ distance = None

CodecUnused ==
    /\ content = None
    /\ decoded = None

BatchUnused ==
    /\ data_dir = None
    /\ files = <<>>
    /\ file_no = 0
    /\ results = <<>>
    /\ log = <<>>
    /\ calls = <<>>
    /\ orig = <<>>

SeqsUpTo(S, n) == UNION {[1..j -> S] : j \in 0..n}

(***************************************************************************)
(* Specification SpecEdges: faces_to_edges applied to bounded face lists.  *)
(***************************************************************************)
FaceIndices == 0..2

FacePool == UNION {[1..k -> FaceIndices] : k \in 1..3}

InitEdges ==
    /\ pc = "edges_start"
    /\ obj = <<>>
    /\ normalized = None
    /\ faces \in SeqsUpTo(FacePool, MaxFaces)
    /\ vertices = <<>>
    /\ edges = <<>>
    /\ midradius = None
    /\ min_edge = None
    /\ min_point = None
    /\ SegmentUnused
    /\ CodecUnused
    /\ BatchUnused

FacesToEdges ==
    /\ pc = "edges_start"
    /\ edges' = faces_to_edges(faces)
    /\ pc' = "edges_done"
    /\ UNCHANGED <<obj, normalized, faces, vertices, midradius, min_edge, min_point>>
    /\ UNCHANGED <<segmentVars, codecVars, batchVars>>

NextEdges == FacesToEdges

SpecEdges == InitEdges /\ [][NextEdges]_vars

(***************************************************************************)
(* Specification SpecCube: faces_to_edges applied to the six square faces  *)
(* of the unit cube, each face written from any of its corners in either   *)
(* direction.                                                              *)
(***************************************************************************)
\* The corners (+-0.5, +-0.5, +-0.5); corner number i (from 0) has the
\* sign of coordinate a in bit a of i.
CubeVertices ==
    [i \in 1..8 |->
        [a \in 1..3 |-> FromRat(<<2 * (((i - 1) \div (2 ^ (a - 1))) % 2) - 1, 2>>)]]

\* Whether corners i and j (0-based) are the ends of an edge of the cube.
CubeAdjacent(i, j) ==
    Cardinality({a \in 1..3 : CubeVertices[i + 1][a] # CubeVertices[j + 1][a]}) = 1

\* The squares of the cube: the cyclic sequences of four corners, each the
\* neighbour of the next and the last of the first.
CubeSquares ==
    {f \in {<<a, b, c, d>> : a, b, c, d \in 0..7} :
        /\ \A j \in 1..4 : CubeAdjacent(f[j], f[(j % 4) + 1])
        /\ Cardinality({f[j] : j \in 1..4}) = 4}

\* The ways of writing the face with coordinate a equal to c / 2.
CubeFaceForms(a, c) ==
    {f \in CubeSquares :
        \A j \in 1..4 : CubeVertices[f[j] + 1][a] = FromRat(<<c, 2>>)}

X0 == CubeFaceForms(1, -1)

X1 == CubeFaceForms(1, 1)

Y0 == CubeFaceForms(2, -1)

Y1 == CubeFaceForms(2, 1)

Z0 == CubeFaceForms(3, -1)

Z1 == CubeFaceForms(3, 1)

InitCube ==
    /\ pc = "edges_start"
    /\ obj = <<>>
    /\ normalized = None
    /\ faces \in X0 \X X1 \X Y0 \X Y1 \X Z0 \X Z1
    /\ vertices = CubeVertices
    /\ edges = <<>>
    /\ midradius = None
    /\ min_edge = None
    /\ min_point = None
    /\ SegmentUnused
    /\ CodecUnused
    /\ BatchUnused

SpecCube == InitCube /\ [][NextEdges]_vars

(***************************************************************************)
(* Specification SpecSegment: closest_point_on_segment applied to the      *)
(* segments between points with coordinates -1, 0, 1, 2.                   *)
(***************************************************************************)
Coords == {FromRat(<<c, 1>>) : c \in -1..2}

PointPool == [1..3 -> Coords]

InitSegment ==
    /\ pc = "segment_start"
    /\ p1 \in PointPool
    /\ p2 \in PointPool
    /\ closest = None
    /\ distance = None
    /\ MeshUnused
    /\ CodecUnused
    /\ BatchUnused

ClosestPointOnSegment ==
    /\ pc = "segment_start"
    /\ LET r == closest_point_on_segment(p1, p2, origin)
       IN  /\ closest' = r[1]
           /\ distance' = r[2]
    /\ pc' = "segment_done"
    /\ UNCHANGED <<p1, p2, meshVars, codecVars, batchVars>>

NextSegment == ClosestPointOnSegment

SpecSegment == InitSegment /\ [][NextSegment]_vars

(***************************************************************************)
(* Specification SpecMidradius: calculate_midradius applied to bounded     *)
(* vertex lists and edge lists, edges with out-of-range indices included.  *)
(***************************************************************************)
Point(x, y, z) == <<FromRat(<<x, 1>>), FromRat(<<y, 1>>), FromRat(<<z, 1>>)>>

VertexPool == {Point(1, 0, 0), Point(0, 1, 0), Point(-1, 0, 1)}

EdgeIndices == 0..2

\* Edges as records hold them, the smaller index first, two self-loops, and
\* one edge the other way round.
EdgePool ==
    {e \in EdgeIndices \X EdgeIndices : e[1] < e[2]}
        \cup {<<0, 0>>, <<1, 1>>, <<1, 0>>}

InitMidradius ==
    /\ pc = "midradius_start"
    /\ vertices \in SeqsUpTo(VertexPool, MaxVerts)
    /\ edges \in SeqsUpTo(EdgePool, MaxEdges)
    /\ obj = <<>>
    /\ normalized = None
    /\ faces = <<>>
    /\ midradius = None
    /\ min_edge = None
    /\ min_point = None
    /\ SegmentUnused
    /\ CodecUnused
    /\ BatchUnused

\* new_midradius, min_edge, min_point = calculate_midradius(vertices, edges)
CalculateMidradius ==
    /\ pc = "midradius_start"
    /\ LET r == calculate_midradius(vertices, edges)
       IN  IF r.raised = ""
           THEN /\ midradius' = r.value[1]
                /\ min_edge' = r.value[2]
                /\ min_point' = r.value[3]
                /\ pc' = "midradius_done"
           ELSE /\ UNCHANGED <<midradius, min_edge, min_point>>
                /\ pc' = "midradius_raised"
    /\ UNCHANGED <<obj, normalized, faces, vertices, edges, segmentVars, codecVars, batchVars>>

NextMidradius == CalculateMidradius

SpecMidradius == InitMidradius /\ [][NextMidradius]_vars

(***************************************************************************)
(* Specification SpecCopies: the three calculate_midradius functions of    *)
(* the scripts called one after the other on the same vertices and edges;  *)
(* calls keeps <<function, outcome>> of each call.                         *)
(***************************************************************************)
CopyVertexPool == {Point(1, 0, 0), Point(2, 1, 0), Point(-1, 0, 1)}

CopyEdgePool == {<<0, 0>>, <<0, 1>>, <<1, 1>>, <<0, 2>>}

InitCopies ==
    /\ pc = "copies_start"
    /\ vertices \in SeqsUpTo(CopyVertexPool, MaxVerts)
    /\ edges \in SeqsUpTo(CopyEdgePool, MaxEdges)
    /\ obj = <<>>
    /\ normalized = None
    /\ faces = <<>>
    /\ midradius = None
    /\ min_edge = None
    /\ min_point = None
    /\ SegmentUnused
    /\ CodecUnused
    /\ BatchUnused

Called(at, next, function, outcome) ==
    /\ pc = at
    /\ pc' = next
    /\ calls' = Append(calls, <<function, outcome>>)
    /\ UNCHANGED <<meshVars, segmentVars, codecVars>>
    /\ UNCHANGED <<data_dir, files, file_no, results, log, orig>>

\* calculate_midradius.calculate_midradius(vertices, edges)
CallReference ==
    Called("copies_start", "copies_reference", "calculate_midradius",
           calculate_midradius(vertices, edges))

\* convert_obj_to_format.calculate_midradius(vertices, edges)
CallConvert ==
    Called("copies_reference", "copies_convert", "convert_obj_to_format",
           convert_calculate_midradius(vertices, edges))

\* download_johnson_solids.calculate_midradius(vertices, edges)
CallJohnson ==
    Called("copies_convert", "copies_done", "download_johnson_solids",
           johnson_calculate_midradius(vertices, edges))

NextCopies == CallReference \/ CallConvert \/ CallJohnson

SpecCopies == InitCopies /\ [][NextCopies]_vars

(***************************************************************************)
(* Specification SpecConvert: main of convert_obj_to_format.py, from the   *)
(* vertices and faces parse_obj_file returned to the record written.       *)
(***************************************************************************)
\* Faces as parse_obj_file returns them: at least two indices each, 1-based
\* indices made 0-based (so "f 0 1" is <<-1, 0>>), not checked against the
\* number of vertices.
MeshFacePool == {<<0, 1>>, <<0, 1, 2>>, <<-1, 0>>, <<1, 3>>}

InitConvert ==
    /\ pc = "convert_parsed"
    /\ vertices \in SeqsUpTo(VertexPool, MaxVerts)
    /\ obj = <<>>
    /\ normalized = None
    /\ faces \in SeqsUpTo(MeshFacePool, MaxFaces)
    /\ edges = <<>>
    /\ midradius = None
    /\ min_edge = None
    /\ min_point = None
    /\ content = None
    /\ decoded = None
    /\ SegmentUnused
    /\ BatchUnused

\* edges = faces_to_edges(faces)
ConvertFacesToEdges ==
    /\ pc = "convert_parsed"
    /\ edges' = faces_to_edges(faces)
    /\ pc' = "convert_edges"
    /\ UNCHANGED <<obj, normalized, faces, vertices, midradius, min_edge, min_point>>
    /\ UNCHANGED <<segmentVars, codecVars, batchVars>>

\* vertices = normalize_vertices(vertices)
ConvertNormalize ==
    /\ pc = "convert_edges"
    /\ vertices' = normalize_vertices(vertices)
    /\ pc' = "convert_normalized"
    /\ UNCHANGED <<obj, normalized, faces, edges, midradius, min_edge, min_point>>
    /\ UNCHANGED <<segmentVars, codecVars, batchVars>>

\* midradius = calculate_midradius(vertices, edges); an IndexError is caught
\* nowhere and ends the script.
ConvertCalculateMidradius ==
    /\ pc = "convert_normalized"
    /\ LET r == convert_calculate_midradius(vertices, edges)
       IN  IF r.raised = ""
           THEN midradius' = r.value /\ pc' = "convert_calculated"
           ELSE midradius' = midradius /\ pc' = "convert_crashed"
    /\ UNCHANGED <<obj, normalized, faces, vertices, edges, min_edge, min_point>>
    /\ UNCHANGED <<segmentVars, codecVars, batchVars>>

\* content = convert_to_format(vertices, edges, midradius); f.write(content)
ConvertWrite ==
    /\ pc = "convert_calculated"
    /\ content' = convert_to_format(vertices, edges, midradius)
    /\ pc' = "convert_saved"
    /\ UNCHANGED <<meshVars, decoded, segmentVars, batchVars>>

NextConvert ==
    \/ ConvertFacesToEdges
    \/ ConvertNormalize
    \/ ConvertCalculateMidradius
    \/ ConvertWrite

SpecConvert == InitConvert /\ [][NextConvert]_vars

(***************************************************************************)
(* Specification SpecObj: main of convert_obj_to_format.py from the OBJ    *)
(* file on, for bounded sequences of OBJ lines.                            *)
(***************************************************************************)
ObjLinePool ==
    {"v 1 0 0", "v 0 1.0 0", "v -1 0 1", "v 1 0",
     "f 1 2", "f 0 1", "f 1/1/1 3/2/2 2//1", "f 2 5", "# f 1 2"}

InitObj ==
    /\ pc = "convert_start"
    /\ obj \in SeqsUpTo(ObjLinePool, MaxObjLines)
    /\ normalized = None
    /\ faces = <<>>
    /\ vertices = <<>>
    /\ edges = <<>>
    /\ midradius = None
    /\ min_edge = None
    /\ min_point = None
    /\ content = None
    /\ decoded = None
    /\ SegmentUnused
    /\ BatchUnused

\* vertices, faces = parse_obj_file(input_path); a ValueError is caught
\* nowhere and ends the script.
ConvertParse ==
    /\ pc = "convert_start"
    /\ LET r == parse_obj_file(obj)
       IN  IF r.raised = ""
           THEN /\ vertices' = r.value.vertices
                /\ faces' = r.value.faces
                /\ pc' = "convert_parsed"
           ELSE /\ UNCHANGED <<vertices, faces>>
                /\ pc' = "convert_crashed"
    /\ UNCHANGED <<obj, normalized, edges, midradius, min_edge, min_point>>
    /\ UNCHANGED <<segmentVars, codecVars, batchVars>>

NextObj ==
    \/ ConvertParse
    \/ NextConvert

SpecObj == InitObj /\ [][NextObj]_vars

(***************************************************************************)
(* Specification SpecNormalize: normalize_vertices applied to bounded      *)
(* vertex lists, the empty list and lists of coinciding points included.   *)
(***************************************************************************)
NormalizePool ==
    {Point(1, 0, 0), Point(0, 1, 0), Point(-1, 0, 1), Point(0, 0, 0),
     Point(2, 2, -1)}

InitNormalize ==
    /\ pc = "normalize_start"
    /\ vertices \in SeqsUpTo(NormalizePool, MaxVerts)
    /\ normalized = None
    /\ obj = <<>>
    /\ faces = <<>>
    /\ edges = <<>>
    /\ midradius = None
    /\ min_edge = None
    /\ min_point = None
    /\ SegmentUnused
    /\ CodecUnused
    /\ BatchUnused

\* normalize_vertices(vertices)
Normalize ==
    /\ pc = "normalize_start"
    /\ normalized' = normalize_vertices(vertices)
    /\ pc' = "normalize_done"
    /\ UNCHANGED <<obj, faces, vertices, edges, midradius, min_edge, min_point>>
    /\ UNCHANGED <<segmentVars, codecVars, batchVars>>

NextNormalize == Normalize

SpecNormalize == InitNormalize /\ [][NextNormalize]_vars

(***************************************************************************)
(* Specification SpecCodec: convert_to_format followed by                  *)
(* parse_polyhedron_file on bounded records, and parse_polyhedron_file on  *)
(* bounded sequences of lines.                                             *)
(***************************************************************************)
CodecVertexPool ==
    {Point(1, 0, 0),
     <<FromRat(<<-1, 3>>), FromRat(<<1, 2>>), F0>>,
     <<FDiv(F1, sqrt(FromRat(<<3, 1>>))), FNeg(FDiv(F1, sqrt(FromRat(<<3, 1>>)))),
       FromRat(<<12, 1>>)>>}

CodecEdgePool == {<<0, 1>>, <<1, 12>>, <<-1, 0>>}

CodecMidradiusPool == {F0, FromRat(<<1, 2>>), sqrt(FromRat(<<1, 5>>)), inf}

LinePool ==
    {"VERTICES:", "EDGES:", "MIDRADIUS:", "0:1,0,-0.5", " 1:0,1 ", "0.25",
     "", "junk", "0:1.2.3,0,0"}

InitCodec ==
    /\ \/ /\ pc = "codec_record"
          /\ vertices \in SeqsUpTo(CodecVertexPool, MaxRecord)
          /\ edges \in SeqsUpTo(CodecEdgePool, MaxRecord)
          /\ midradius \in CodecMidradiusPool
          /\ content = None
       \/ /\ pc = "codec_text"
          /\ vertices = <<>>
          /\ edges = <<>>
          /\ midradius = None
          /\ content \in {Join(lines, "\n") : lines \in SeqsUpTo(LinePool, MaxLines)}
    /\ obj = <<>>
    /\ normalized = None
    /\ faces = <<>>
    /\ min_edge = None
    /\ min_point = None
    /\ decoded = None
    /\ SegmentUnused
    /\ BatchUnused

\* content = convert_to_format(vertices, edges, midradius)
Encode ==
    /\ pc = "codec_record"
    /\ content' = convert_to_format(vertices, edges, midradius)
    /\ pc' = "codec_encoded"
    /\ UNCHANGED <<meshVars, decoded, segmentVars, batchVars>>

\* parse_polyhedron_file on the text just encoded.
DecodeEncoded ==
    /\ pc = "codec_encoded"
    /\ decoded' = parse_polyhedron_file(content)
    /\ pc' = "codec_roundtrip"
    /\ UNCHANGED <<meshVars, content, segmentVars, batchVars>>

\* parse_polyhedron_file on a text of arbitrary lines.
DecodeText ==
    /\ pc = "codec_text"
    /\ decoded' = parse_polyhedron_file(content)
    /\ pc' = "codec_decoded"
    /\ UNCHANGED <<meshVars, content, segmentVars, batchVars>>

NextCodec == Encode \/ DecodeEncoded \/ DecodeText

SpecCodec == InitCodec /\ [][NextCodec]_vars

(***************************************************************************)
(* Specification SpecBatch: main of calculate_midradius.py over a data     *)
(* directory of bounded size.  SpecBatchFair adds that the script, a       *)
(* sequential program, keeps running until it returns.                     *)
(***************************************************************************)
\* A file of the directory: its text, and whether it can be read and
\* written ("rw"), only read ("r"), or not opened at all ("").
File(mode, text) == [mode |-> mode, text |-> text]

FilePool ==
    {File("rw", "VERTICES:\n0:1.0000,0.0000,0.0000\n1:0.0000,1.0000,0.0000\n\nEDGES:\n0:0,1\n\nMIDRADIUS:\n0.5000"),
     File("rw", "VERTICES:\n0:1.0000,0.0000,0.0000\n\nEDGES:\n0:0,0\n"),
     File("rw", "VERTICES:\n0:2.0000,0.0000,0.0000\n\nEDGES:\n0:0,0\n\nMIDRADIUS:\n\n0.5000\n"),
     File("rw", "VERTICES:\n0:1.0000,0.0000,0.0000\n\nEDGES:\n\nMIDRADIUS:\ninf"),
     File("rw", "VERTICES:\n0:1.0000,0.0000,0.0000\n\nEDGES:\n0:0,5\n\nMIDRADIUS:\n0.5000"),
     File("rw", "VERTICES:\n0:1.2.3,0.0000,0.0000\n\nEDGES:\n0:0,0\n\nMIDRADIUS:\n0.5000"),
     File("rw", ""),
     File("r", "VERTICES:\n0:1.0000,0.0000,0.0000\n\nEDGES:\n0:0,0\n\nMIDRADIUS:\n0.5000"),
     File("", "")}

InitBatch ==
    /\ pc = "batch_start"
    /\ \/ data_dir = "exists" /\ files \in SeqsUpTo(FilePool, MaxFiles)
       \/ data_dir = "missing" /\ files = <<>>
    /\ orig = files
    /\ file_no = 0
    /\ results = <<>>
    /\ log = <<>>
    /\ calls = <<>>
    /\ MeshUnused
    /\ SegmentUnused
    /\ CodecUnused

\* if not data_dir.exists(): print(...); return
BatchNoDataDir ==
    /\ pc = "batch_start"
    /\ data_dir = "missing"
    /\ log' = Append(log, <<0, "Error: Data directory not found">>)
    /\ pc' = "batch_returned"
    /\ UNCHANGED <<data_dir, files, file_no, results, calls, orig>>
    /\ UNCHANGED <<meshVars, segmentVars, codecVars>>

\* if not txt_files: print(...); return
BatchNoFiles ==
    /\ pc = "batch_start"
    /\ data_dir = "exists"
    /\ files = <<>>
    /\ log' = Append(log, <<0, "No .txt files found">>)
    /\ pc' = "batch_returned"
    /\ UNCHANGED <<data_dir, files, file_no, results, calls, orig>>
    /\ UNCHANGED <<meshVars, segmentVars, codecVars>>

\* results = []; the loop over txt_files begins.
BatchBegin ==
    /\ pc = "batch_start"
    /\ data_dir = "exists"
    /\ files # <<>>
    /\ file_no' = 1
    /\ pc' = "batch_loop"
    /\ UNCHANGED <<data_dir, files, results, log, calls, orig>>
    /\ UNCHANGED <<meshVars, segmentVars, codecVars>>

\* A mutant of MissingGeometry: only the vertex list is looked at.
MissingGeometryVerticesOnly(vs, es) == vs = <<>>

\* if not vertices or not edges
MissingGeometry(vs, es) == vs = <<>> \/ es = <<>>

\* A mutant of AfterException: the exception is not caught and ends the
\* script.
AfterExceptionAbort == "batch_crashed"

\* Where the script goes on after the except clause: with the next file.
AfterException == "batch_loop"

\* The messages and calls of the loop body for the file numbered file_no.
Processing == <<<<file_no, "Processing">>>>

Calculated == <<<<file_no, "calculate_midradius">>>>

Updating == <<<<file_no, "update_midradius_in_file">>>>

\* The except clause: print(f"  Error processing {filename}: {e}"), after
\* the calls called were made.
Except(called) ==
    /\ log' = log \o Processing \o <<<<file_no, "Error processing">>>>
    /\ calls' = calls \o called
    /\ pc' = AfterException
    /\ UNCHANGED <<files, results>>

\* The loop body from the call of calculate_midradius on, calc being what
\* the call returned or raised: the prints, which raise TypeError when
\* min_edge is None, the update of the file and the summary entry.
UpdateFile(file, old_midradius, calc) ==
    IF calc.raised # "" \/ calc.value[2] = None THEN Except(Calculated)
    ELSE IF file.mode # "rw" THEN Except(Calculated \o Updating)
    ELSE /\ files' = [files EXCEPT ![file_no].text =
                         update_midradius_in_file(file.text, calc.value[1])]
         /\ log' = log \o Processing \o <<<<file_no, "Updated">>>>
         /\ calls' = calls \o Calculated \o Updating
         /\ results' = Append(results, [file |-> file_no,
                                        old |-> old_midradius,
                                        new |-> calc.value[1]])
         /\ pc' = "batch_loop"

\* The loop body from the call of parse_polyhedron_file on, parsed being
\* what the call returned or raised.
TryFile(file, parsed) ==
    IF file.mode = "" \/ parsed.raised # "" THEN Except(<<>>)
    ELSE IF MissingGeometry(parsed.value.vertices, parsed.value.edges)
    THEN /\ log' = log \o Processing
                     \o <<<<file_no, "Warning: No vertices or edges found, skipping">>>>
         /\ pc' = "batch_loop"
         /\ UNCHANGED <<files, results, calls>>
    ELSE UpdateFile(file, parsed.value.midradius,
             calculate_midradius(parsed.value.vertices, parsed.value.edges))

\* One pass of the loop body, for the file numbered file_no.
ProcessFile ==
    /\ pc = "batch_loop"
    /\ file_no <= Len(files)
    /\ file_no' = file_no + 1
    /\ TryFile(files[file_no], parse_polyhedron_file(files[file_no].text))
    /\ UNCHANGED <<data_dir, orig, meshVars, segmentVars, codecVars>>

\* After the loop: the summary table is printed.
Summary ==
    /\ pc = "batch_loop"
    /\ file_no > Len(files)
    /\ log' = Append(log, <<0, "SUMMARY">>)
    /\ pc' = "batch_done"
    /\ UNCHANGED <<data_dir, files, file_no, results, calls, orig>>
    /\ UNCHANGED <<meshVars, segmentVars, codecVars>>

NextBatch ==
    \/ BatchNoDataDir
    \/ BatchNoFiles
    \/ BatchBegin
    \/ ProcessFile
    \/ Summary

SpecBatch == InitBatch /\ [][NextBatch]_vars

\* The script is running: main has neither returned nor reached its end.
Running == pc \in {"batch_start", "batch_loop"}

\* A step of the running script, seen on its place alone: it is at another
\* statement or at the next file.  Every step of NextBatch is such a step,
\* and one is possible exactly when the script is running.
Step ==
    /\ Running
    /\ pc' \in {"batch_loop", "batch_returned", "batch_done"}
    /\ file_no' \in {file_no, file_no + 1}

\* The interpreter does not stop in the middle of the script.
SpecBatchFair == SpecBatch /\ WF_<<pc, file_no>>(Step)

(***************************************************************************)
(* Specification SpecRerun: main of calculate_midradius.py run again over  *)
(* the same directory after it has ended; log and calls go on through the  *)
(* runs, orig is the directory as the latest run found it.                 *)
(***************************************************************************)
MaxRuns == 2

RerunPool ==
    {File("rw", "VERTICES:\n0:1.0000,0.0000,0.0000\n1:0.0000,1.0000,0.0000\n\nEDGES:\n0:0,1\n\nMIDRADIUS:\n0.5000"),
     File("rw", "VERTICES:\n0:2.0000,0.0000,0.0000\n\nEDGES:\n0:0,0\n\nMIDRADIUS:\n\n0.5000\n"),
     File("rw", "VERTICES:\n0:1.0000,0.0000,0.0000\n1:2.0000,0.0000,0.0000\n\nEDGES:MIDRADIUS:\n0:0,0\n1:1,1\n"),
     File("rw", "VERTICES:\n0:1.0000,0.0000,0.0000\n\nEDGES:\n0:0,5\n\nMIDRADIUS:\n0.5000"),
     File("rw", ""),
     File("r", "VERTICES:\n0:1.0000,0.0000,0.0000\n\nEDGES:\n0:0,0\n\nMIDRADIUS:\n0.5000"),
     File("", "")}

InitRerun ==
    /\ pc = "batch_start"
    /\ \/ data_dir = "exists" /\ files \in SeqsUpTo(RerunPool, MaxFiles)
       \/ data_dir = "missing" /\ files = <<>>
    /\ orig = files
    /\ file_no = 0
    /\ results = <<>>
    /\ log = <<>>
    /\ calls = <<>>
    /\ MeshUnused
    /\ SegmentUnused
    /\ CodecUnused

\* The number of runs that reached the summary.
Runs == Cardinality({k \in 1..Len(log) : log[k] = <<0, "SUMMARY">>})

\* The script is started again on the directory the run before left.
RunAgain ==
    /\ pc = "batch_done"
    /\ Runs < MaxRuns
    /\ pc' = "batch_start"
    /\ orig' = files
    /\ file_no' = 0
    /\ results' = <<>>
    /\ UNCHANGED <<data_dir, files, log, calls>>
    /\ UNCHANGED <<meshVars, segmentVars, codecVars>>

NextRerun == NextBatch \/ RunAgain

SpecRerun == InitRerun /\ [][NextRerun]_vars

(***************************************************************************)
(* The claims.                                                             *)
(***************************************************************************)
\* The reference edge set: the canonical pair of every cyclically
\* consecutive index pair of every face.
RefEdges(fs) ==
    UNION {{<<Min(fs[k][i], fs[k][(i % Len(fs[k])) + 1]),
              Max(fs[k][i], fs[k][(i % Len(fs[k])) + 1])>> :
                i \in 1..Len(fs[k])} : k \in 1..Len(fs)}

StrictlyAscending(s) ==
    \A i \in 1..(Len(s) - 1) : TupleLess(s[i], s[i + 1])

\* C1: faces_to_edges returns exactly the canonical pairs of all cyclically
\* consecutive index pairs (wrap-around included), each once, in strictly
\* ascending order by (first, second).
C1_EdgesAreReference ==
    pc = "edges_done" =>
        /\ StrictlyAscending(edges)
        /\ {edges[i] : i \in 1..Len(edges)} = RefEdges(faces)

\* The same triangle listed twice, in both orientations: its 3 edges, each
\* listed once.
C1_Witness ==
    /\ pc = "edges_done"
    /\ faces = <<<<0, 1, 2>>, <<2, 1, 0>>>>
    /\ Len(edges) = 3

\* q = a + t * (b - a)
IsPointAt(q, a, b, t) ==
    \A i \in 1..3 : q[i] = FAdd(a[i], FMul(t, FSub(b[i], a[i])))

\* The parameters t with q = a + t * (b - a), for a # b: the quotient of any
\* coordinate in which a and b differ.
ParamsOf(q, a, b) ==
    {FDiv(FSub(q[i], a[i]), FSub(b[i], a[i])) : i \in {j \in 1..3 : a[j] # b[j]}}

\* C2: the point returned is p1 + t * (p2 - p1) for a t in [0, 1]; when
\* p1 = p2 it is p1, with the distance of p1 from the origin.
C2_PointOnSegment ==
    pc = "segment_done" =>
        /\ p1 # p2 =>
              \E t \in ParamsOf(closest, p1, p2) :
                  /\ IsPointAt(closest, p1, p2, t)
                  /\ ~FLess(t, F0)
                  /\ ~FLess(F1, t)
        /\ p1 = p2 =>
              /\ closest = p1
              /\ ~FLess(distance, F0)
              /\ FMul(distance, distance) = Dot(p1, p1)

\* A segment whose line comes closest to the origin beyond p2: the
\* projection parameter is 2, clamped to 1, and the point returned is p2.
C2_Witness ==
    /\ pc = "segment_done"
    /\ p1 = <<FromRat(<<2, 1>>), F1, F0>>
    /\ p2 = <<F1, F1, F0>>
    /\ closest = p2

\* The segment of edge number k and what closest_point_on_segment returns
\* for it.
EdgeResult(k) ==
    closest_point_on_segment(Item(vertices, edges[k][1]),
                             Item(vertices, edges[k][2]), origin)

\* C3: for a non-empty edge list with valid indices, calculate_midradius
\* returns the minimum over the edges of the closest-point distance, and an
\* edge of the list and its closest point that attain it.
C3_MidradiusIsMinimum ==
    pc = "midradius_done" /\ edges # <<>> =>
        /\ \A k \in 1..Len(edges) : ~FLess(EdgeResult(k)[2], midradius)
        /\ \E k \in 1..Len(edges) :
              /\ min_edge = edges[k]
              /\ min_point = EdgeResult(k)[1]
              /\ midradius = EdgeResult(k)[2]
        /\ ~FLess(midradius, F0)
        /\ FMul(midradius, midradius) = Dot(min_point, min_point)

\* Three vertices and two edges of different distances, the nearer edge
\* second: the minimum 1/sqrt(5) is that of the second edge.
C3_Witness ==
    /\ pc = "midradius_done"
    /\ vertices = <<Point(1, 0, 0), Point(0, 1, 0), Point(-1, 0, 1)>>
    /\ edges = <<<<0, 1>>, <<0, 2>>>>
    /\ min_edge = <<0, 2>>
    /\ Square(midradius) = <<1, 5>>

\* C4 (as claimed): the conversion writes no record for a mesh whose vertex
\* list or edge list is empty, and its midradius is no silent default.
C4_MissingGeometryNotWritten ==
    pc = "convert_saved" =>
        /\ vertices # <<>>
        /\ edges # <<>>
        /\ midradius # inf

\* x to 4 decimal places, as a float.
Rounded4(x) ==
    IF x = inf THEN inf
    ELSE FromRat(Rat((IF x.q[1] < 0 THEN -1 ELSE 1) * Round4(x), 10000))

\* C5 (as claimed): decoding the encoded record returns the vertices to 4
\* decimal places in order, the same edge list and the midradius to 4
\* decimal places.
C5_RoundTrip ==
    pc = "codec_roundtrip" =>
        /\ decoded.raised = ""
        /\ Len(decoded.value.vertices) = Len(vertices)
        /\ \A j \in 1..Len(vertices) : \A i \in 1..3 :
              decoded.value.vertices[j][i] = Rounded4(vertices[j][i])
        /\ decoded.value.edges = edges
        /\ decoded.value.midradius = Rounded4(midradius)

\* The section in force at line number j (1-based) of lines: that of the
\* last header line before it, "" when there is none.
RECURSIVE SectionAt(_, _)
SectionAt(lines, j) ==
    IF j <= 1 THEN ""
    ELSE IF HeaderOf(Strip(lines[j - 1])) # "" THEN HeaderOf(Strip(lines[j - 1]))
    ELSE SectionAt(lines, j - 1)

\* Line number j is blank, or is no header and does not match the pattern
\* of the section in force.
NonMatching(lines, j) ==
    LET line == Strip(lines[j])
        section == SectionAt(lines, j)
    IN  /\ HeaderOf(line) = ""
        /\ \/ line = ""
           \/ section = ""
           \/ section = "vertices" /\ VertexMatch(line) = <<>>
           \/ section = "edges" /\ EdgeMatch(line) = <<>>
           \/ section = "midradius" /\ MidradiusMatch(line) = <<>>

\* lines without its non-matching lines, from line number j on.
RECURSIVE MatchingFrom(_, _)
MatchingFrom(lines, j) ==
    IF j > Len(lines) THEN <<>>
    ELSE (IF NonMatching(lines, j) THEN <<>> ELSE <<lines[j]>>)
            \o MatchingFrom(lines, j + 1)

\* C8: decoding drops blank and non-matching lines without aborting: the
\* result is that of decoding the text with those lines removed, and an
\* abort is always due to a line that matches the pattern of its section.
C8_TolerantDecoding ==
    pc = "codec_decoded" =>
        LET lines == Split(content, "\n")
            kept == MatchingFrom(lines, 1)
        IN  /\ \/ kept = <<>> /\ decoded = parse_polyhedron_file("")
               \/ kept # <<>> /\ decoded = parse_polyhedron_file(Join(kept, "\n"))
            /\ decoded.raised # "" =>
                  \E j \in 1..Len(lines) :
                      /\ ~NonMatching(lines, j)
                      /\ HeaderOf(Strip(lines[j])) = ""
                      /\ ParseLine([section |-> SectionAt(lines, j),
                                    vertices |-> <<>>, edges |-> <<>>,
                                    midradius |-> None], lines[j]).raised # ""

\* A vertex section with a line of no pattern before a vertex line: the
\* vertex is decoded, the other line dropped.
C8_Witness ==
    /\ pc = "codec_decoded"
    /\ content = "VERTICES:\njunk\n0:1,0,-0.5"
    /\ decoded.raised = ""
    /\ Len(decoded.value.vertices) = 1

\* The messages printed for file number j, in order.
RECURSIVE MessagesOf(_, _)
MessagesOf(lg, j) ==
    IF lg = <<>> THEN <<>>
    ELSE (IF lg[1][1] = j THEN <<lg[1][2]>> ELSE <<>>) \o MessagesOf(Tail(lg), j)

\* The file numbers of the "Processing" messages, in order.
RECURSIVE Attempts(_)
Attempts(lg) ==
    IF lg = <<>> THEN <<>>
    ELSE (IF lg[1][2] = "Processing" THEN <<lg[1][1]>> ELSE <<>>)
            \o Attempts(Tail(lg))

Updated(j) == <<j, "Updated">> \in {log[i] : i \in 1..Len(log)}

\* The summary entry of file number j.
ResultOf(j) == CHOOSE r \in {results[i] : i \in 1..Len(results)} : r.file = j

\* C6 (as claimed): after a reported update the file decodes to the newly
\* computed midradius, to 4 decimal places.
C6_UpdatedNotStale ==
    \A j \in 1..Len(files) :
        Updated(j) =>
            parse_polyhedron_file(files[j].text).value.midradius
                = Rounded4(ResultOf(j).new)

\* C7 (as claimed): an update leaves the decoded vertices and edges as they
\* were, and changes no line but the value line after a MIDRADIUS: header.
C7_OnlyMidradiusValueChanged ==
    \A j \in 1..Len(files) :
        Updated(j) =>
            LET before == Split(orig[j].text, "\n")
                after == Split(files[j].text, "\n")
                old == parse_polyhedron_file(orig[j].text).value
                new == parse_polyhedron_file(files[j].text).value
            IN  /\ new.vertices = old.vertices
                /\ new.edges = old.edges
                /\ Len(after) = Len(before)
                /\ \A i \in 1..Len(before) :
                      after[i] # before[i] =>
                          i > 1 /\ HeaderOf(Strip(before[i - 1])) = "midradius"

\* C9: whatever fails for a file, the files are attempted once each, in
\* order, and the script goes on to the summary.
C9_BatchCompletes ==
    /\ [](pc \in {"batch_loop", "batch_done"} =>
            Attempts(log) = [i \in 1..(file_no - 1) |-> i])
    /\ [](pc = "batch_done" => Attempts(log) = [i \in 1..Len(files) |-> i])
    /\ (pc = "batch_loop" ~> pc = "batch_done")

\* The first file fails, the second one is updated, the summary is reached.
C9_Witness ==
    /\ pc = "batch_done"
    /\ Len(files) = 2
    /\ MessagesOf(log, 1) = <<"Processing", "Error processing">>
    /\ MessagesOf(log, 2) = <<"Processing", "Updated">>

\* File number j, attempted, was decoded to no vertices or to no edges.
DecodedEmpty(j) ==
    /\ j < file_no
    /\ orig[j].mode # ""
    /\ parse_polyhedron_file(orig[j].text).raised = ""
    /\ LET d == parse_polyhedron_file(orig[j].text).value
       IN  d.vertices = <<>> \/ d.edges = <<>>

\* C10: a file decoded to no vertices or no edges is reported and skipped:
\* no function is called for it, it is not rewritten, it gets no summary
\* entry, and the loop goes on.
C10_EmptyRecordSkipped ==
    \A j \in 1..Len(files) :
        DecodedEmpty(j) =>
            /\ MessagesOf(log, j)
                  = <<"Processing", "Warning: No vertices or edges found, skipping">>
            /\ \A i \in 1..Len(calls) : calls[i][1] # j
            /\ files[j] = orig[j]
            /\ \A i \in 1..Len(results) : results[i].file # j
            /\ pc \in {"batch_loop", "batch_done"}

\* A record without edges first, skipped, and the next file updated.
C10_Witness ==
    /\ pc = "batch_done"
    /\ Len(files) = 2
    /\ DecodedEmpty(1)
    /\ parse_polyhedron_file(orig[1].text).value.vertices # <<>>
    /\ Updated(2)

\* C11 (as claimed): in every record the conversion writes, both indices of
\* every edge are indices 0 .. number of vertices - 1 of the vertex list.
C11_WrittenEdgesValid ==
    pc = "convert_saved" =>
        \A k \in 1..Len(edges) : \A i \in 1..2 :
            0 <= edges[k][i] /\ edges[k][i] < Len(vertices)

\* The sum of coordinate i of the vertices vs from vertex number j on.
RECURSIVE AxisTotal(_, _, _)
AxisTotal(vs, i, j) ==
    IF j > Len(vs) THEN F0 ELSE FAdd(vs[j][i], AxisTotal(vs, i, j + 1))

\* The centroid of the non-empty vertex list vs.
CentroidOf(vs) ==
    [i \in 1..3 |-> FDiv(AxisTotal(vs, i, 1), FromRat(<<Len(vs), 1>>))]

\* All vertices of vs are the same point.
Coincide(vs) == \A j \in 1..Len(vs) : vs[j] = vs[1]

Quarters == {FromRat(Rat(n, 4)) : n \in 0..4}

\* C14: the distance returned is the norm of the point returned, and no
\* point p1 + s * (p2 - p1) with s in [0, 1] is closer to the origin than
\* the point returned: none at s = 0, 1/4, 1/2, 3/4, 1, and none at all,
\* since at the point returned the squared distance does not decrease
\* towards either end point (it is a convex function of s).
C14_ClosestOfSegment ==
    pc = "segment_done" =>
        LET d == [i \in 1..3 |-> FSub(p2[i], p1[i])]
            At(s) == [i \in 1..3 |-> FAdd(p1[i], FMul(s, d[i]))]
            slope == Dot(closest, d)
        IN  /\ ~FLess(distance, F0)
            /\ FMul(distance, distance) = Dot(closest, closest)
            /\ \A s \in Quarters :
                  ~FLess(Dot(At(s), At(s)), Dot(closest, closest))
            /\ p1 # p2 =>
                  \E t \in ParamsOf(closest, p1, p2) :
                      /\ IsPointAt(closest, p1, p2, t)
                      /\ ~FLess(FMul(slope, FNeg(t)), F0)
                      /\ ~FLess(FMul(slope, FSub(F1, t)), F0)

\* A segment whose closest point lies strictly between its end points.
C14_Witness ==
    /\ pc = "segment_done"
    /\ p1 = Point(-1, 2, 0)
    /\ p2 = Point(2, -1, 0)
    /\ closest = <<FromRat(<<1, 2>>), FromRat(<<1, 2>>), F0>>
    /\ FMul(distance, distance) = FromRat(<<1, 2>>)

\* The numbers (from 1) of the self-loop edges (i, i) of the edge list.
SelfLoops == {k \in 1..Len(edges) : edges[k][1] = edges[k][2]}

\* Whether every edge names two vertices of the vertex list.
EdgesValid ==
    \A k \in 1..Len(edges) :
        ValidIndex(vertices, edges[k][1]) /\ ValidIndex(vertices, edges[k][2])

\* Whether d is the distance of the point v from the origin.
IsNormOf(d, v) == ~FLess(d, F0) /\ FMul(d, d) = Dot(v, v)

\* C15: on an edge list with a self-loop (i, i) and valid indices, neither
\* calculate_midradius of calculate_midradius.py nor that of
\* convert_obj_to_format.py raises; the self-loop is evaluated by the
\* zero-length branch, which gives vertex i and its distance from the
\* origin; the minimum returned is at most that distance, is that distance
\* (with vertex i as the point) when the self-loop is the edge returned,
\* and is the distance of one of the vertices when all edges are self-loops.
C15_SelfLoopContributesVertex ==
    pc = "copies_done" /\ SelfLoops # {} /\ EdgesValid =>
        LET reference == calls[1][2]
            convert == calls[2][2]
            Vertex(k) == Item(vertices, edges[k][1])
        IN  /\ reference.raised = ""
            /\ convert.raised = ""
            /\ \A k \in SelfLoops :
                  LET r == closest_point_on_segment(Vertex(k), Vertex(k),
                                                    origin)
                  IN  /\ r[1] = Vertex(k)
                      /\ IsNormOf(r[2], Vertex(k))
                      /\ IsNormOf(InlinedDistance(Vertex(k), Vertex(k)),
                                  Vertex(k))
                      /\ ~FLess(r[2], reference.value[1])
                      /\ ~FLess(r[2], convert.value)
                      /\ reference.value[2] = edges[k] =>
                            /\ IsNormOf(reference.value[1], Vertex(k))
                            /\ reference.value[3] = Vertex(k)
            /\ SelfLoops = 1..Len(edges) =>
                  \E k \in SelfLoops :
                      /\ IsNormOf(reference.value[1], Vertex(k))
                      /\ IsNormOf(convert.value, Vertex(k))

\* The only edge is the self-loop of the vertex (2, 1, 0), at distance
\* sqrt(5).
C15_Witness ==
    /\ pc = "copies_done"
    /\ vertices = <<Point(2, 1, 0)>>
    /\ edges = <<<<0, 0>>>>
    /\ calls[1][2].raised = ""
    /\ calls[1][2].value[2] = <<0, 0>>
    /\ calls[1][2].value[3] = Point(2, 1, 0)
    /\ FMul(calls[1][2].value[1], calls[1][2].value[1]) = FromRat(<<5, 1>>)
    /\ calls[2][2].value = calls[1][2].value[1]

\* What a copy that returns the minimum alone gives when the function of
\* calculate_midradius.py gives outcome r.
FirstComponent(r) ==
    IF r.raised = "" THEN Return(r.value[1]) ELSE Raise(r.raised)

\* C18: called on the same vertices and edges, calculate_midradius of
\* convert_obj_to_format.py and of download_johnson_solids.py return the
\* first component of what calculate_midradius of calculate_midradius.py
\* returns, and raise what it raises.
C18_CopiesAgree ==
    pc = "copies_done" =>
        /\ calls[2][2] = FirstComponent(calls[1][2])
        /\ calls[3][2] = FirstComponent(calls[1][2])

\* A clamped edge and a degenerate edge: the minimum 1 is at the end (1, 0, 0)
\* of the first edge.
C18_Witness ==
    /\ pc = "copies_done"
    /\ vertices = <<Point(1, 0, 0), Point(2, 1, 0)>>
    /\ edges = <<<<0, 1>>, <<1, 1>>>>
    /\ calls[1][2] = Return(<<F1, <<0, 1>>, Point(1, 0, 0)>>)
    /\ calls[2][2] = Return(F1)
    /\ calls[3][2] = Return(F1)

\* C16: for the six square faces of the unit cube, each written from any
\* corner in either direction, faces_to_edges yields exactly 12 edges: the
\* pairs of corners that differ in one coordinate.
C16_CubeHasTwelveEdges ==
    pc = "edges_done" /\ vertices = CubeVertices =>
        /\ Len(edges) = 12
        /\ {edges[k] : k \in 1..Len(edges)} =
              {e \in (0..7) \X (0..7) : e[1] < e[2] /\ CubeAdjacent(e[1], e[2])}

\* The two faces across the first axis written in opposite directions and
\* from different corners.
C16_Witness ==
    /\ pc = "edges_done"
    /\ vertices = CubeVertices
    /\ faces[1] = <<0, 2, 6, 4>>
    /\ faces[2] = <<7, 3, 1, 5>>
    /\ Len(edges) = 12

\* The numbers (from 1) of the edges whose distance is the midradius.
Attaining == {k \in 1..Len(edges) : EdgeResult(k)[2] = midradius}

\* C17: calculate_midradius returns as min_edge the first edge of the list
\* among those that attain the minimum distance, and as min_point the
\* closest point of that edge.
C17_FirstEdgeWinsTies ==
    pc = "midradius_done" /\ edges # <<>> =>
        /\ Attaining # {}
        /\ LET first == CHOOSE k \in Attaining : \A j \in Attaining : k <= j
           IN  /\ min_edge = edges[first]
               /\ min_point = EdgeResult(first)[1]

\* Two self-loop edges at distance 1, at different vertices: the first one is
\* returned.
C17_Witness ==
    /\ pc = "midradius_done"
    /\ vertices = <<Point(1, 0, 0), Point(0, 1, 0)>>
    /\ edges = <<<<0, 0>>, <<1, 1>>>>
    /\ Attaining = {1, 2}
    /\ midradius = F1
    /\ min_edge = <<0, 0>>
    /\ min_point = Point(1, 0, 0)

\* C19 (as claimed): a second run of the recompute batch over the directory
\* leaves every file as the first run left it.
C19_SecondRunChangesNothing ==
    pc = "batch_done" /\ Runs = 2 => files = orig

====
